---- MODULE Spec2Model ----
(***************************************************************************)
(* The WebSocket relay of src/server.js: the session registry              *)
(* (socketToId), the world state (players, scores), the message router,    *)
(* the broadcast relay and the keepalive sweeper.  Every handler runs to   *)
(* completion on the single event loop, so each handler is one action.     *)
(***************************************************************************)
EXTENDS Integers, Sequences, FiniteSets, TLC

\* ------------------------------------------------------------- bounds
\* socket objects alive at the same time
MaxSockets == 2
\* connections accepted over the whole run (ids are never reused)
MaxIds == 3
\* score events credited to one id before the model stops crediting it
MaxScore == 2

\* ------------------------------------------------- program constants
\* .slice(0, 20) of the join and name cases
NameLimit == 20

Sockets == 1..MaxSockets

\* ------------------------------------------------------- JS values
\* A JSON value as the handler sees it after JSON.parse: its type, its
\* number (numbers) and its characters (strings).
Undef == [ty |-> "undefined", n |-> 0, s |-> <<>>]
Num(k) == [ty |-> "number", n |-> k, s |-> <<>>]
Str(chars) == [ty |-> "string", n |-> 0, s |-> chars]
\* the empty array []
EmptyArr == [ty |-> "array", n |-> 0, s |-> <<>>]

Digits == <<"0", "1", "2", "3", "4", "5", "6", "7", "8", "9">>

\* ToBoolean, as used by ||, && and !
Truthy(v) ==
  CASE v.ty = "undefined" -> FALSE
    [] v.ty = "null" -> FALSE
    [] v.ty = "number" -> v.n # 0
    [] v.ty = "string" -> Len(v.s) > 0
    [] OTHER -> TRUE

\* the index (1..10) of a decimal digit character, 0 for any other character
DigitIndex(c) == IF \E i \in 1..10 : Digits[i] = c
                 THEN CHOOSE i \in 1..10 : Digits[i] = c
                 ELSE 0

RECURSIVE DigitsValue(_)
DigitsValue(chars) ==
  IF chars = <<>> THEN 0
  ELSE 10 * DigitsValue(SubSeq(chars, 1, Len(chars) - 1))
       + (DigitIndex(chars[Len(chars)]) - 1)

\* Number(v): [nan, n].  A string converts when it is empty (0) or all
\* decimal digits; every other string of the model's inputs is NaN.
ToNumber(v) ==
  CASE v.ty = "undefined" -> [nan |-> TRUE, n |-> 0]
    [] v.ty = "null" -> [nan |-> FALSE, n |-> 0]
    [] v.ty = "number" -> [nan |-> FALSE, n |-> v.n]
    [] v.ty = "string" ->
         IF \A i \in 1..Len(v.s) : DigitIndex(v.s[i]) # 0
         THEN [nan |-> FALSE, n |-> DigitsValue(v.s)]
         ELSE [nan |-> TRUE, n |-> 0]
    [] v.ty = "array" -> [nan |-> FALSE, n |-> 0]
    [] OTHER -> [nan |-> TRUE, n |-> 0]

\* Mutant of NumberOr: only NaN falls back to the default, 0 is kept.
NumberOrNaN(v, dflt) ==
  LET r == ToNumber(v) IN IF r.nan THEN dflt ELSE r.n

\* Number(v) || dflt: NaN and 0 are both falsy
NumberOr(v, dflt) ==
  LET r == ToNumber(v) IN IF r.nan \/ r.n = 0 THEN dflt ELSE r.n

RECURSIVE NatToChars(_)
NatToChars(k) ==
  IF k < 10 THEN <<Digits[k + 1]>>
  ELSE NatToChars(k \div 10) \o <<Digits[(k % 10) + 1]>>

\* v.toString() of a truthy JSON value
ToStr(v) ==
  CASE v.ty = "string" -> v.s
    [] v.ty = "number" ->
         IF v.n < 0 THEN <<"-">> \o NatToChars(-v.n) ELSE NatToChars(v.n)
    [] v.ty = "array" -> <<>>
    [] v.ty = "object" ->
         <<"[", "o", "b", "j", "e", "c", "t", " ", "O", "b", "j", "e", "c", "t", "]">>
    [] OTHER -> <<>>

\* str.slice(0, k)
Slice(chars, k) == SubSeq(chars, 1, IF Len(chars) < k THEN Len(chars) ELSE k)

PlayerStr == <<"P", "l", "a", "y", "e", "r">>

\* (p.name || "Player").toString().slice(0, 20)
ClampName(pname) ==
  Slice(ToStr(IF Truthy(pname) THEN pname ELSE Str(PlayerStr)), NameLimit)

\* name || "Player" of a stored name
OrPlayer(name) == IF Len(name) > 0 THEN name ELSE PlayerStr

\* sc | 0: the 32-bit value of an integer score; scores are integers that
\* start at 0 and grow by 1, so within the model's reach sc | 0 is sc itself
ToInt32(k) == k

\* newId(): the n-th identifier generated; randomUUID never repeats
NewId(n) == <<"u">> \o NatToChars(n)

\* ------------------------------------------------------------ maps
EmptyMap == [k \in {} |-> 0]
MapSet(m, k, v) == [j \in DOMAIN m \cup {k} |-> IF j = k THEN v ELSE m[j]]
MapDelete(m, k) == [j \in DOMAIN m \ {k} |-> m[j]]

VARIABLES
  socketToId,  \* Map<WebSocket, string>: socket handle -> session id
  players,     \* Map<string, {x, z, name}>
  scores,      \* Map<string, number>
  readyState,  \* ws.readyState of every socket handle
  isAlive,     \* ws.isAlive of every socket handle
  nextId,      \* how many ids newId() has generated
  crashed,     \* an exception escaped a handler: the process is gone
  out,         \* what the last handler wrote to each socket, in order
  ev,          \* the last handler that ran and its input
  joined,      \* history: sockets that sent join since they connected
  log,         \* history: per socket, the first messages and counts
  credits,     \* history: per registered id, the score events credited to
               \* it since the last reset (or since it connected)
  sweep        \* history: per socket, "probed" since a tick pinged it and no
               \* pong came back, "killed" once a tick terminated it,
               \* "idle" otherwise

vars == <<socketToId, players, scores, readyState, isAlive, nextId,
          crashed, out, ev, joined, log, credits, sweep>>


\* ------------------------------------------------- inbound frames
\* p of an inbound envelope (msg.p || {}): the fields the router reads.
Payload(x, z, name, idx, id) ==
  [x |-> x, z |-> z, name |-> name, idx |-> idx, id |-> id]
NoPayload == Payload(Undef, Undef, Undef, Undef, Undef)

\* An inbound text frame by what JSON.parse makes of it:
\*   "unparseable"  JSON.parse throws
\*   "null"         the text null
\*   "value"        a number, string, boolean or array: msg.t is undefined
\*   "object"       an object with t (\"\" when absent) and p
Frame(kind, t, p) == [kind |-> kind, t |-> t, p |-> p]
NoFrame == Frame("none", "", NoPayload)

AnnStr == <<"A", "n", "n">>
\* a name of 25 characters, all positions told apart modulo 10
LongStr == [i \in 1..(NameLimit + 5) |-> Digits[(i % 10) + 1]]

\* (p.x, p.z) of join and state frames: missing, numbers (0 among them) and
\* a string that is no number
CoordIn ==
  {<<Undef, Undef>>, <<Num(1), Num(2)>>, <<Num(0), Str(<<"a">>)>>}
\* p.name: absent, empty, short, longer than the limit, and not a string
NameIn == {Undef, Str(<<>>), Str(AnnStr), Str(LongStr), EmptyArr}
\* p.id of a score frame: absent, a number, or any session id ever issued
TargetIn == {Undef, Num(1)} \cup {Str(NewId(n)) : n \in 1..MaxIds}

JoinFrames ==
  {Frame("object", "join", Payload(c[1], c[2], Undef, Undef, Undef)) : c \in CoordIn}
  \cup {Frame("object", "join", Payload(Num(1), Num(2), nm, Undef, Undef)) :
          nm \in NameIn}
StateFrames ==
  {Frame("object", "state", Payload(c[1], c[2], Undef, Undef, Undef)) : c \in CoordIn}
NameFrames ==
  {Frame("object", "name", Payload(Undef, Undef, nm, Undef, Undef)) :
     nm \in NameIn}
RelayFrames ==
  {Frame("object", t, Payload(Undef, Undef, Undef, i, Undef)) :
     t \in {"pickup", "shoot", "land"}, i \in {Undef, Num(3)}}
  \cup {Frame("object", "pickup", Payload(Undef, Undef, Undef, Str(<<"3">>), Undef))}
ScoreFrames ==
  {Frame("object", "score", Payload(Undef, Undef, Undef, Undef, id)) :
     id \in TargetIn}
  \cup {Frame("object", "score", Payload(Undef, Undef, Undef, Num(3), Undef))}
ResetFrames == {Frame("object", "reset", NoPayload)}
\* an unknown type, no type, and a JSON value that is no object (a number)
OtherFrames ==
  {Frame("object", "dance", NoPayload), Frame("object", "", NoPayload),
   Frame("value", "", NoPayload)}
UnparseableFrames == {Frame("unparseable", "", NoPayload)}
NullFrames == {Frame("null", "", NoPayload)}

\* ---------------------------------------------- outbound messages
HelloMsg(id) == [t |-> "hello", id |-> id]
AddMsg(id, x, z, name) ==
  [t |-> "add", id |-> id, p |-> [x |-> x, z |-> z, name |-> name]]
NameMsg(id, name) == [t |-> "name", id |-> id, p |-> [name |-> name]]
StateMsg(id, x, z) == [t |-> "state", id |-> id, p |-> [x |-> x, z |-> z]]
PickupMsg(id, idx) == [t |-> "pickup", id |-> id, id2 |-> idx]
ShootMsg(id, p) == [t |-> "shoot", id |-> id, p |-> p]
LandMsg(p) == [t |-> "land", p |-> p]
ScoreMsg(id, name, idx) ==
  [t |-> "score", id |-> id, p |-> [name |-> name, idx |-> idx]]
ResetMsg == [t |-> "reset"]
RemoveMsg(id) == [t |-> "remove", id |-> id]

\* snapshot()
Snapshot(pl, sc) ==
  [players |-> [id \in DOMAIN pl |->
                  [x |-> pl[id].x, z |-> pl[id].z, name |-> OrPlayer(pl[id].name)]],
   scores |-> [id \in DOMAIN sc |->
                 [name |-> IF id \in DOMAIN pl THEN OrPlayer(pl[id].name)
                           ELSE PlayerStr,
                  score |-> ToInt32(sc[id])]]]
SnapshotMsg(pl, sc) ==
  [t |-> "snapshot", players |-> Snapshot(pl, sc).players,
   scores |-> Snapshot(pl, sc).scores]

\* ------------------------------------------------ send, broadcast
\* the null exceptId
NoId == <<>>
Silent == [s \in Sockets |-> <<>>]

\* send(ws, t, payload): what each socket is written
Send(rs, ws, m) ==
  [s \in Sockets |->
     IF s = ws /\ rs[s] = "OPEN" THEN <<[via |-> "send", msg |-> m]>> ELSE <<>>]

\* Mutant of Broadcast: the exceptId test is left out.
BroadcastToAll(reg, rs, m, exceptId) ==
  [s \in Sockets |->
     IF s \in DOMAIN reg /\ rs[s] = "OPEN"
     THEN <<[via |-> "broadcast", msg |-> m]>>
     ELSE <<>>]

\* broadcast(t, payload, exceptId) over the registry reg
Broadcast(reg, rs, m, exceptId) ==
  [s \in Sockets |->
     IF /\ s \in DOMAIN reg
        /\ ~(Len(exceptId) > 0 /\ reg[s] = exceptId)
        /\ rs[s] = "OPEN"
     THEN <<[via |-> "broadcast", msg |-> m]>>
     ELSE <<>>]

\* one handler's writes followed by more of its writes
Then(o1, o2) == [s \in Sockets |-> o1[s] \o o2[s]]

\* Mutant of BumpScore: the previous count is forgotten.
BumpScoreSet(sc, id, delta) == MapSet(sc, id, delta)

\* bumpScore(id, delta)
BumpScore(sc, id, delta) ==
  MapSet(sc, id, (IF id \in DOMAIN sc THEN sc[id] ELSE 0) + delta)

\* ------------------------------------------------------- history
NoLog == [first |-> <<>>, hello |-> 0, snapshot |-> 0]
CountOf(deliveries, t) ==
  Cardinality({i \in DOMAIN deliveries : deliveries[i].msg.t = t})
Sat(k) == IF k > 2 THEN 2 ELSE k
\* lg after the writes o: the types of the first two messages a socket was
\* written since it connected, and how many hello and snapshot (2: two or more)
Logged(lg, o) ==
  [s \in Sockets |->
     [first |-> Slice(lg[s].first \o [i \in DOMAIN o[s] |-> o[s][i].msg.t], 2),
      hello |-> Sat(lg[s].hello + CountOf(o[s], "hello")),
      snapshot |-> Sat(lg[s].snapshot + CountOf(o[s], "snapshot"))]]

Event(h, ws, me, f, bt, bx) ==
  [h |-> h, ws |-> ws, me |-> me, f |-> f, bt |-> bt, bx |-> bx,
   probed |-> {}, killed |-> {}]

\* no handler is running and the last one's writes have left the process
NoEvent == Event("idle", 0, NoId, NoFrame, "", NoId)
Idle == ~crashed /\ ev = NoEvent

Init ==
  /\ socketToId = EmptyMap
  /\ players = EmptyMap
  /\ scores = EmptyMap
  /\ readyState = [s \in Sockets |-> "CLOSED"]
  /\ isAlive = [s \in Sockets |-> TRUE]
  /\ nextId = 0
  /\ crashed = FALSE
  /\ out = Silent
  /\ ev = NoEvent
  /\ joined = {}
  /\ log = [s \in Sockets |-> NoLog]
  /\ credits = EmptyMap
  /\ sweep = [s \in Sockets |-> "idle"]

\* Mutant of Greeting: the snapshot is sent before the hello.
GreetingSnapshotFirst(rs, ws, id, pl, sc) ==
  Then(Send(rs, ws, SnapshotMsg(pl, sc)), Send(rs, ws, HelloMsg(id)))

\* send(ws, "hello", { id }); send(ws, "snapshot", snapshot());
Greeting(rs, ws, id, pl, sc) ==
  Then(Send(rs, ws, HelloMsg(id)), Send(rs, ws, SnapshotMsg(pl, sc)))

\* wss.on("connection"): a new socket object, open when the handler runs
Connection(ws) ==
  /\ Idle
  /\ nextId < MaxIds
  /\ ws \notin DOMAIN socketToId
  /\ \A s \in Sockets \ DOMAIN socketToId : ws <= s
  /\ LET id == NewId(nextId + 1)
         rs == [readyState EXCEPT ![ws] = "OPEN"]
         o == Greeting(rs, ws, id, players, scores)
     IN /\ socketToId' = MapSet(socketToId, ws, id)
        /\ readyState' = rs
        /\ isAlive' = [isAlive EXCEPT ![ws] = TRUE]
        /\ nextId' = nextId + 1
        /\ out' = o
        /\ ev' = Event("connection", ws, id, NoFrame, "", NoId)
        /\ log' = Logged([log EXCEPT ![ws] = NoLog], o)
        /\ joined' = joined \ {ws}
        /\ credits' = MapSet(credits, id, 0)
        /\ sweep' = [sweep EXCEPT ![ws] = "idle"]
        /\ UNCHANGED <<players, scores, crashed>>

\* ------------------------------------------------ message handler
\* a message event is delivered to a registered, open socket
Receives(ws) ==
  /\ Idle
  /\ ws \in DOMAIN socketToId
  /\ readyState[ws] = "OPEN"

\* const me = socketToId.get(ws); if (!me) return;
Me(ws) == socketToId[ws]
HasMe(ws) == ws \in DOMAIN socketToId /\ Len(Me(ws)) > 0

\* what every case of the router leaves alone, and the record of the event
Handled(ws, buf, bt, bx, o) ==
  /\ out' = o
  /\ ev' = Event("message", ws, Me(ws), buf, bt, bx)
  /\ log' = Logged(log, o)
  /\ UNCHANGED <<socketToId, readyState, isAlive, nextId, sweep>>

\* try { msg = JSON.parse(...) } catch { return; }
MessageUnparseable(ws, buf) ==
  /\ Receives(ws)
  /\ buf.kind = "unparseable"
  /\ Handled(ws, buf, "", NoId, Silent)
  /\ UNCHANGED <<players, scores, crashed, joined, credits>>

\* msg = null: reading msg.t throws a TypeError outside the try block; no
\* handler catches it and the process exits.  Its memory (the three maps,
\* every socket object) is gone with it.
MessageNull(ws, buf) ==
  /\ Receives(ws)
  /\ buf.kind = "null"
  /\ crashed' = TRUE
  /\ socketToId' = EmptyMap
  /\ players' = EmptyMap
  /\ scores' = EmptyMap
  /\ readyState' = [s \in Sockets |-> "CLOSED"]
  /\ isAlive' = [s \in Sockets |-> TRUE]
  /\ nextId' = 0
  /\ joined' = {}
  /\ out' = Silent
  /\ log' = [s \in Sockets |-> NoLog]
  /\ credits' = EmptyMap
  /\ sweep' = [s \in Sockets |-> "idle"]
  /\ ev' = Event("message", ws, Me(ws), buf, "", NoId)

\* the frame parsed to something whose .t can be read, and the sender is
\* registered: the switch runs on t
Dispatches(ws, buf, t) ==
  /\ Receives(ws)
  /\ buf.kind \in {"object", "value"}
  /\ HasMe(ws)
  /\ buf.t = t

\* Mutant of JoinPlayers: x and z are stored the wrong way round.
JoinPlayersSwapped(pl, me, p) ==
  MapSet(pl, me, [x |-> NumberOr(p.z, 0), z |-> NumberOr(p.x, 0),
                  name |-> ClampName(p.name)])

\* case "join"
JoinPlayers(pl, me, p) ==
  MapSet(pl, me, [x |-> NumberOr(p.x, 0), z |-> NumberOr(p.z, 0),
                  name |-> ClampName(p.name)])
\* Mutant of JoinScores: every join starts the score again at 0.
JoinScoresZero(sc, me) == MapSet(sc, me, 0)

JoinScores(sc, me) == IF me \in DOMAIN sc THEN sc ELSE MapSet(sc, me, 0)
JoinOut(reg, rs, ws, me, p) ==
  Then(Broadcast(reg, rs,
                 AddMsg(me, NumberOr(p.x, 0), NumberOr(p.z, 0), ClampName(p.name)),
                 me),
       Send(rs, ws, NameMsg(me, ClampName(p.name))))

MessageJoin(ws, buf) ==
  /\ Dispatches(ws, buf, "join")
  /\ players' = JoinPlayers(players, Me(ws), buf.p)
  /\ scores' = JoinScores(scores, Me(ws))
  /\ joined' = joined \cup {ws}
  /\ Handled(ws, buf, "add", Me(ws),
             JoinOut(socketToId, readyState, ws, Me(ws), buf.p))
  /\ UNCHANGED <<crashed, credits>>

\* Mutant of StatePlayers: a missing record is created instead of ignored.
StatePlayersUpsert(pl, me, p) ==
  MapSet(pl, me,
         [x |-> NumberOr(p.x, IF me \in DOMAIN pl THEN pl[me].x ELSE 0),
          z |-> NumberOr(p.z, IF me \in DOMAIN pl THEN pl[me].z ELSE 0),
          name |-> IF me \in DOMAIN pl THEN pl[me].name ELSE PlayerStr])

\* Mutant of StatePlayers: a value that is no number snaps to zero.
StatePlayersZero(pl, me, p) ==
  IF me \notin DOMAIN pl THEN pl
  ELSE [pl EXCEPT ![me] = [x |-> NumberOr(p.x, 0),
                           z |-> NumberOr(p.z, 0),
                           name |-> pl[me].name]]

\* case "state"
StatePlayers(pl, me, p) ==
  IF me \notin DOMAIN pl THEN pl
  ELSE [pl EXCEPT ![me] = [x |-> NumberOr(p.x, pl[me].x),
                           z |-> NumberOr(p.z, pl[me].z),
                           name |-> pl[me].name]]
StateOut(reg, rs, pl, me, p) ==
  IF me \notin DOMAIN pl THEN Silent
  ELSE Broadcast(reg, rs,
                 StateMsg(me, NumberOr(p.x, pl[me].x), NumberOr(p.z, pl[me].z)),
                 me)

MessageState(ws, buf) ==
  /\ Dispatches(ws, buf, "state")
  /\ players' = StatePlayers(players, Me(ws), buf.p)
  /\ Handled(ws, buf,
             IF Me(ws) \in DOMAIN players THEN "state" ELSE "",
             IF Me(ws) \in DOMAIN players THEN Me(ws) ELSE NoId,
             StateOut(socketToId, readyState, players, Me(ws), buf.p))
  /\ UNCHANGED <<scores, crashed, joined, credits>>

\* Mutant of RenamePlayers: a missing record is created with the name.
RenamePlayersUpsert(pl, me, p) ==
  IF me \in DOMAIN pl THEN [pl EXCEPT ![me].name = ClampName(p.name)]
  ELSE MapSet(pl, me, [x |-> 0, z |-> 0, name |-> ClampName(p.name)])

\* case "name"
RenamePlayers(pl, me, p) ==
  IF me \in DOMAIN pl THEN [pl EXCEPT ![me].name = ClampName(p.name)] ELSE pl

MessageName(ws, buf) ==
  /\ Dispatches(ws, buf, "name")
  /\ players' = RenamePlayers(players, Me(ws), buf.p)
  /\ Handled(ws, buf, "name", NoId,
             Broadcast(socketToId, readyState,
                       NameMsg(Me(ws), ClampName(buf.p.name)), NoId))
  /\ UNCHANGED <<scores, crashed, joined, credits>>

\* Mutant of HasIdx: any idx that is present counts.
HasIdxPresent(p) == p.idx.ty # "undefined"

\* typeof p.idx === "number"
HasIdx(p) == p.idx.ty = "number"

\* cases "pickup", "shoot", "land"
RelayMsg(t, me, p) ==
  CASE t = "pickup" -> PickupMsg(me, p.idx)
    [] t = "shoot" -> ShootMsg(me, p)
    [] OTHER -> LandMsg(p)

MessageRelay(ws, buf) ==
  /\ \E t \in {"pickup", "shoot", "land"} : Dispatches(ws, buf, t)
  /\ Handled(ws, buf,
             IF HasIdx(buf.p) THEN buf.t ELSE "",
             IF HasIdx(buf.p) THEN Me(ws) ELSE NoId,
             IF HasIdx(buf.p)
             THEN Broadcast(socketToId, readyState,
                            RelayMsg(buf.t, Me(ws), buf.p), Me(ws))
             ELSE Silent)
  /\ UNCHANGED <<players, scores, crashed, joined, credits>>

\* Mutant of Scorer: the target named in the payload is ignored.
ScorerAlwaysMe(pl, me, p) == me

\* case "score": (p.id && players.has(p.id)) ? p.id : me
Scorer(pl, me, p) ==
  IF Truthy(p.id) /\ p.id.ty = "string" /\ p.id.s \in DOMAIN pl THEN p.id.s ELSE me
ScoreOf(sc, id) == IF id \in DOMAIN sc THEN sc[id] ELSE 0

MessageScore(ws, buf) ==
  /\ Dispatches(ws, buf, "score")
  /\ LET scorer == Scorer(players, Me(ws), buf.p)
         name == IF scorer \in DOMAIN players
                 THEN OrPlayer(players[scorer].name) ELSE PlayerStr
     IN /\ ScoreOf(scores, scorer) < MaxScore
        /\ scores' = BumpScore(scores, scorer, 1)
        /\ credits' = [credits EXCEPT ![scorer] = @ + 1]
        /\ Handled(ws, buf, "score", NoId,
                   Broadcast(socketToId, readyState,
                             ScoreMsg(scorer, name, buf.p.idx), NoId))
  /\ UNCHANGED <<players, crashed, joined>>

\* Mutant of ResetScores: the rows are zeroed without scores.clear().
ResetScoresNoClear(sc, pl) == [id \in DOMAIN sc \cup DOMAIN pl |-> 0]

\* Mutant of ResetScores: scores.clear() alone, no row is put back.
ResetScoresEmpty(sc, pl) == EmptyMap

\* case "reset": scores.clear(); for (pid of players.keys()) scores.set(pid, 0)
ResetScores(sc, pl) == [id \in DOMAIN pl |-> 0]

MessageReset(ws, buf) ==
  /\ Dispatches(ws, buf, "reset")
  /\ scores' = ResetScores(scores, players)
  /\ credits' = [id \in DOMAIN credits |-> 0]
  /\ Handled(ws, buf, "reset", NoId,
             Broadcast(socketToId, readyState, ResetMsg, NoId))
  /\ UNCHANGED <<players, crashed, joined>>

RouterTypes ==
  {"join", "state", "name", "pickup", "shoot", "land", "score", "reset"}

\* default: break
MessageOther(ws, buf) ==
  /\ Receives(ws)
  /\ buf.kind \in {"object", "value"}
  /\ HasMe(ws)
  /\ buf.t \notin RouterTypes
  /\ Handled(ws, buf, "", NoId, Silent)
  /\ UNCHANGED <<players, scores, crashed, joined, credits>>

\* ------------------------------------------------- close, keepalive
\* The transport starts closing a socket (the peer's close frame, a network
\* error, or terminate()): it is no longer open, and its close event follows.
SocketClosing(ws) ==
  /\ Idle
  /\ ws \in DOMAIN socketToId
  /\ readyState[ws] = "OPEN"
  /\ readyState' = [readyState EXCEPT ![ws] = "CLOSING"]
  /\ out' = Silent
  /\ ev' = Event("closing", ws, Me(ws), NoFrame, "", NoId)
  /\ log' = Logged(log, Silent)
  /\ UNCHANGED <<socketToId, players, scores, isAlive, nextId, crashed, joined,
                 credits, sweep>>

\* Mutant of ClosePlayers: the Player record is left behind.
ClosePlayersKeeps(pl, id) == pl

\* ws.on("close")
ClosePlayers(pl, id) ==
  IF Len(id) > 0 /\ id \in DOMAIN pl THEN MapDelete(pl, id) ELSE pl
CloseScores(pl, sc, id) ==
  IF Len(id) > 0 /\ id \in DOMAIN pl THEN MapDelete(sc, id) ELSE sc
CloseOut(reg, rs, pl, id) ==
  IF Len(id) > 0 /\ id \in DOMAIN pl
  THEN Broadcast(reg, rs, RemoveMsg(id), NoId)
  ELSE Silent

Close(ws) ==
  /\ Idle
  /\ ws \in DOMAIN socketToId
  /\ readyState[ws] = "CLOSING"
  /\ LET id == Me(ws)
         reg == MapDelete(socketToId, ws)
         rs == [readyState EXCEPT ![ws] = "CLOSED"]
         o == CloseOut(reg, rs, players, id)
     IN /\ socketToId' = reg
        /\ readyState' = rs
        /\ players' = ClosePlayers(players, id)
        /\ scores' = CloseScores(players, scores, id)
        /\ out' = o
        /\ ev' = [Event("close", ws, id, NoFrame,
                        IF id \in DOMAIN players THEN "remove" ELSE "", NoId)
                  EXCEPT !.killed = IF sweep[ws] = "killed" THEN {ws} ELSE {}]
        /\ log' = Logged(log, o)
  /\ isAlive' = [isAlive EXCEPT ![ws] = TRUE]
  /\ sweep' = [sweep EXCEPT ![ws] = "idle"]
  /\ joined' = joined \ {ws}
  /\ credits' = MapDelete(credits, Me(ws))
  /\ UNCHANGED <<nextId, crashed>>

\* ws.on("pong")
Pong(ws) ==
  /\ Idle
  /\ ws \in DOMAIN socketToId
  /\ readyState[ws] = "OPEN"
  /\ isAlive' = [isAlive EXCEPT ![ws] = TRUE]
  /\ sweep' = [sweep EXCEPT ![ws] = IF @ = "probed" THEN "idle" ELSE @]
  /\ out' = Silent
  /\ ev' = Event("pong", ws, Me(ws), NoFrame, "", NoId)
  /\ log' = Logged(log, Silent)
  /\ UNCHANGED <<socketToId, players, scores, readyState, nextId, crashed, joined,
                 credits>>

\* the setInterval callback over wss.clients (the registered sockets)
Tick ==
  /\ Idle
  /\ LET clients == DOMAIN socketToId
         dead == {s \in clients : isAlive[s] = FALSE}
     IN /\ readyState' = [s \in Sockets |->
                            IF s \in dead /\ readyState[s] # "CLOSED"
                            THEN "CLOSING" ELSE readyState[s]]
        /\ isAlive' = [s \in Sockets |->
                         IF s \in clients \ dead THEN FALSE ELSE isAlive[s]]
        /\ ev' = [Event("tick", 0, NoId, NoFrame, "", NoId) EXCEPT
                    !.probed = {s \in clients \ dead : readyState[s] = "OPEN"},
                    !.killed = dead]
        /\ sweep' = [s \in Sockets |->
                       IF s \in dead THEN "killed"
                       ELSE IF s \in clients THEN "probed" ELSE sweep[s]]
  /\ out' = Silent
  /\ log' = Logged(log, Silent)
  /\ UNCHANGED <<socketToId, players, scores, nextId, crashed, joined, credits>>

\* The handler has returned to the event loop and its writes are on the
\* wire; the next event can be taken.  Handlers never interleave.
Return ==
  /\ ~crashed
  /\ ev # NoEvent
  /\ ev' = NoEvent
  /\ out' = Silent
  /\ UNCHANGED <<socketToId, players, scores, readyState, isAlive, nextId,
                 crashed, joined, log, credits, sweep>>

Next ==
  \/ Return
  \/ \E ws \in Sockets : Connection(ws)
  \/ \E ws \in Sockets, buf \in UnparseableFrames : MessageUnparseable(ws, buf)
  \/ \E ws \in Sockets, buf \in NullFrames : MessageNull(ws, buf)
  \/ \E ws \in Sockets, buf \in JoinFrames : MessageJoin(ws, buf)
  \/ \E ws \in Sockets, buf \in StateFrames : MessageState(ws, buf)
  \/ \E ws \in Sockets, buf \in NameFrames : MessageName(ws, buf)
  \/ \E ws \in Sockets, buf \in RelayFrames : MessageRelay(ws, buf)
  \/ \E ws \in Sockets, buf \in ScoreFrames : MessageScore(ws, buf)
  \/ \E ws \in Sockets, buf \in ResetFrames : MessageReset(ws, buf)
  \/ \E ws \in Sockets, buf \in OtherFrames : MessageOther(ws, buf)
  \/ \E ws \in Sockets : SocketClosing(ws)
  \/ \E ws \in Sockets : Close(ws)

\* The relay: connections, messages and closes.  A socket leaves the open
\* state by SocketClosing whatever the cause, the sweeper's terminate()
\* included, so the sweeper adds no registry, player or score state to it.
Spec == Init /\ [][Next]_vars

\* The keepalive sweeper with the part of the relay that makes and ends
\* sessions: connections, joins, pongs, ticks and closes.
NextSweeper ==
  \/ Return
  \/ \E ws \in Sockets : Connection(ws)
  \/ \E ws \in Sockets, buf \in JoinFrames : MessageJoin(ws, buf)
  \/ \E ws \in Sockets : SocketClosing(ws)
  \/ \E ws \in Sockets : Close(ws)
  \/ \E ws \in Sockets : Pong(ws)
  \/ Tick

\* The interval timer fires every 30 s whatever else the event loop does,
\* the close event of a socket that left the open state is always emitted,
\* and every handler returns.
SpecSweeper ==
  /\ Init
  /\ [][NextSweeper]_vars
  /\ WF_vars(Return)
  /\ SF_vars(Tick)
  /\ \A ws \in Sockets : SF_vars(Close(ws))


\* ------------------------------------------------------- properties
\* the last handler was the router on an object frame of type t
IsMsg(e, t) == e.h = "message" /\ e.f.kind = "object" /\ e.f.t = t

Registered == DOMAIN socketToId
RegisteredIds == {socketToId[s] : s \in Registered}
IsOpen(s) == s \in Registered /\ readyState[s] = "OPEN"

ViaBroadcast(d) == d.via = "broadcast"
\* what the last handler's broadcast wrote to socket s
Bcasts(o, s) == SelectSeq(o[s], ViaBroadcast)
ByBroadcast(m) == [via |-> "broadcast", msg |-> m]
BySend(m) == [via |-> "send", msg |-> m]

\* C1: between handlers, the ids of snapshot().players are exactly the ids
\* of the registered connections that sent join since they connected.
C1_SnapshotPlayersAreJoined ==
  DOMAIN Snapshot(players, scores).players
    = {socketToId[s] : s \in joined \cap Registered}

\* a joined session has closed while another joined session stays
C1_Witness ==
  /\ ev.h = "close"
  /\ ev.bt = "remove"
  /\ joined # {}

Malformed(f) ==
  \/ f.kind \in {"unparseable", "null", "value"}
  \/ f.kind = "object" /\ f.t \in {"join", "name"}
       /\ f.p.name.ty \notin {"undefined", "string"}

\* C3: a frame that is no well-formed envelope is dropped: players, scores
\* and registry unchanged, nothing sent, and the server keeps running.
C3_MalformedDropped ==
  [][(ev'.h = "message" /\ Malformed(ev'.f)) =>
       /\ crashed' = FALSE
       /\ players' = players
       /\ scores' = scores
       /\ socketToId' = socketToId
       /\ out' = Silent]_vars

\* C4: a new client is written exactly one hello with its new id and then
\* exactly one snapshot of the current players and scores, and these are
\* the first two messages it is ever written.
C4_HelloThenSnapshot ==
  /\ \A s \in Registered :
       /\ log[s].first = <<"hello", "snapshot">>
       /\ log[s].hello = 1
       /\ log[s].snapshot = 1
  /\ ev.h = "connection" =>
       /\ ev.ws \in Registered
       /\ \A s \in Registered \ {ev.ws} : socketToId[s] # socketToId[ev.ws]
       /\ \A s \in Sockets \ {ev.ws} : out[s] = <<>>
       /\ Len(out[ev.ws]) = 2
       /\ out[ev.ws][1] = BySend([t |-> "hello", id |-> socketToId[ev.ws]])
       /\ LET m == out[ev.ws][2].msg
          IN /\ m.t = "snapshot"
             /\ DOMAIN m.players = DOMAIN players
             /\ \A id \in DOMAIN players :
                  /\ m.players[id].x = players[id].x
                  /\ m.players[id].z = players[id].z
             /\ DOMAIN m.scores = DOMAIN scores
             /\ \A id \in DOMAIN scores : m.scores[id].score = scores[id]

\* a late joiner: the snapshot it is sent holds a player and a score
C4_Witness ==
  /\ ev.h = "connection"
  /\ DOMAIN players # {}
  /\ \E id \in DOMAIN scores : scores[id] > 0

\* C5: when a registered session disconnects its registry entry is removed,
\* remove{id} is written to every remaining open connection, and a later
\* snapshot does not hold its id.
C5_DisconnectRemoves ==
  ev.h = "close" =>
    /\ ev.me \notin RegisteredIds
    /\ \A s \in Registered :
         IsOpen(s) => out[s] = <<ByBroadcast([t |-> "remove", id |-> ev.me])>>
    /\ ev.me \notin DOMAIN Snapshot(players, scores).players
    /\ ev.me \notin DOMAIN Snapshot(players, scores).scores

\* C6: between handlers, every key of players and of scores is the id of a
\* registered connection.
C6_StoreKeysRegistered ==
  (DOMAIN players \cup DOMAIN scores) \subseteq RegisteredIds

\* C7: N score events credited to a registered id since its score was last
\* 0, with no reset in between, leave its score at exactly N; each score
\* event changes one counter, by exactly 1.
C7_ScoreCounts ==
  /\ [](\A s \in Registered :
          ScoreOf(scores, socketToId[s]) = credits[socketToId[s]])
  /\ [][IsMsg(ev', "score") =>
          \E c \in DOMAIN scores' :
            /\ scores'[c] = ScoreOf(scores, c) + 1
            /\ DOMAIN scores' = DOMAIN scores \cup {c}
            /\ \A id \in DOMAIN scores' \ {c} : scores'[id] = scores[id]]_vars

\* two score events were credited to one session and one to another
C7_Witness ==
  /\ IsMsg(ev, "score")
  /\ \E s1, s2 \in Registered :
       /\ credits[socketToId[s1]] = 2 /\ scores[socketToId[s1]] = 2
       /\ credits[socketToId[s2]] = 1 /\ scores[socketToId[s2]] = 1

\* C8: right after a reset, scores has exactly the keys of players, every
\* score is 0, players is unchanged, and reset (empty payload) was written
\* to every open connection, the sender included.
C8_Reset ==
  [][IsMsg(ev', "reset") =>
       /\ players' = players
       /\ DOMAIN scores' = DOMAIN players'
       /\ \A id \in DOMAIN scores' : scores'[id] = 0
       /\ \A s \in Sockets :
            out'[s] = IF s \in DOMAIN socketToId' /\ readyState'[s] = "OPEN"
                      THEN <<ByBroadcast([t |-> "reset"])>>
                      ELSE <<>>
       /\ out'[ev'.ws] # <<>>]_vars

\* a reset with a joined player and a registered session that never joined
C8_Witness ==
  /\ IsMsg(ev, "reset")
  /\ DOMAIN players # {}
  /\ Registered \ joined # {}
  /\ \A id \in DOMAIN scores : scores[id] = 0

\* C9: a state event from a session that has not sent join changes neither
\* players nor scores, creates no Player record and sends nothing.
C9_StateBeforeJoin ==
  [][(IsMsg(ev', "state") /\ ev'.ws \notin joined) =>
       /\ players' = players
       /\ scores' = scores
       /\ ev'.me \notin DOMAIN players'
       /\ out' = Silent]_vars

\* a state event from an unjoined session while a joined session is open
C9_Witness ==
  /\ IsMsg(ev, "state")
  /\ ev.ws \notin joined
  /\ \E s \in joined : IsOpen(s)

\* the name a join or name event is to store: the first NameLimit
\* characters, "Player" when absent or empty
Clamped(v) ==
  IF v.ty = "undefined" \/ v.s = <<>> THEN PlayerStr
  ELSE IF Len(v.s) <= NameLimit THEN v.s
  ELSE [i \in 1..NameLimit |-> v.s[i]]

\* C10: after join{x, z, name} from A, players[A] = {x, z, clamped name},
\* scores[A] exists (0 if it did not before), add with these values was
\* written to every other open connection and not to A, and A alone was
\* sent name{id, clamped name}.
C10_Join ==
  [][(IsMsg(ev', "join") /\ ev'.f.p.name.ty \in {"undefined", "string"}) =>
       LET A == ev'.me
           p == ev'.f.p
       IN /\ A \in DOMAIN players'
          /\ p.x.ty = "number" => players'[A].x = p.x.n
          /\ p.z.ty = "number" => players'[A].z = p.z.n
          /\ players'[A].name = Clamped(p.name)
          /\ A \in DOMAIN scores'
          /\ A \notin DOMAIN scores => scores'[A] = 0
          /\ \A s \in Sockets \ {ev'.ws} :
               out'[s] = IF s \in DOMAIN socketToId' /\ readyState'[s] = "OPEN"
                         THEN <<ByBroadcast([t |-> "add", id |-> A,
                                             p |-> players'[A]])>>
                         ELSE <<>>
          /\ out'[ev'.ws] =
               <<BySend([t |-> "name", id |-> A,
                         p |-> [name |-> players'[A].name]])>>]_vars

\* join{x:1, z:2, name:"Ann"} from a session that already had a score,
\* with another open connection that was written the add
C10_Witness ==
  /\ IsMsg(ev, "join")
  /\ ev.f.p.name = Str(AnnStr)
  /\ players[ev.me] = [x |-> 1, z |-> 2, name |-> AnnStr]
  /\ scores[ev.me] = 1
  /\ \E s \in Registered \ {ev.ws} : out[s] # <<>>

\* C11: a score event from S credits the target named in the payload when
\* that target has a Player record and S itself otherwise, by exactly 1;
\* score{id, name} with the credited id and its display name (the name a
\* snapshot shows for it, "Player" without a Player record) is written to
\* every open connection, S included.
C11_ScoreTarget ==
  [][IsMsg(ev', "score") =>
       LET S == ev'.me
           p == ev'.f.p
           c == IF p.id.ty = "string" /\ p.id.s \in DOMAIN players
                THEN p.id.s ELSE S
           m == [t |-> "score", id |-> c,
                 p |-> [name |-> Snapshot(players', scores').scores[c].name,
                        idx |-> p.idx]]
       IN /\ c \in DOMAIN scores'
          /\ scores'[c] = ScoreOf(scores, c) + 1
          /\ c \notin DOMAIN players => m.p.name = PlayerStr
          /\ \A s \in Sockets :
               out'[s] = IF s \in DOMAIN socketToId' /\ readyState'[s] = "OPEN"
                         THEN <<ByBroadcast(m)>>
                         ELSE <<>>
          /\ out'[ev'.ws] # <<>>]_vars

\* a score event naming another session, which has joined as "Ann" and is
\* credited its second point; both open connections are written the score
C11_Witness ==
  /\ IsMsg(ev, "score")
  /\ ev.f.p.id.ty = "string"
  /\ ev.f.p.id.s # ev.me
  /\ ev.f.p.id.s \in DOMAIN players
  /\ players[ev.f.p.id.s].name = AnnStr
  /\ scores[ev.f.p.id.s] = 2
  /\ Cardinality(Registered) = 2
  /\ \A s \in Registered : out[s] # <<>>

\* C12: the name a join or name event stores is the clamped supplied name,
\* "Player" when none is supplied; hence in every reachable state every
\* stored Player name is non-empty and at most NameLimit characters long.
C12_NamesClamped ==
  /\ \A id \in DOMAIN players :
       /\ Len(players[id].name) >= 1
       /\ Len(players[id].name) <= NameLimit
  /\ (IsMsg(ev, "join") \/ (IsMsg(ev, "name") /\ ev.me \in DOMAIN players)) =>
       players[ev.me].name = Clamped(ev.f.p.name)

\* the connections that have not answered since a tick last probed them
Unanswered == {s \in Registered : sweep[s] # "idle"}

\* At a tick exactly the unanswered connections are terminated (so one that
\* answered every probe is not); every other connection has its flag
\* cleared and, when open, is pinged; the tick itself changes neither the
\* registry nor the world state.
SweeperTick ==
  [][ev'.h = "tick" =>
       /\ ev'.killed = Unanswered
       /\ \A s \in Unanswered : readyState'[s] = "CLOSING"
       /\ \A s \in Registered \ Unanswered :
            /\ isAlive'[s] = FALSE
            /\ readyState'[s] = readyState[s]
            /\ readyState[s] = "OPEN" => s \in ev'.probed
       /\ ev'.probed \cap ev'.killed = {}
       /\ socketToId' = socketToId
       /\ players' = players
       /\ scores' = scores]_vars

\* a connection is never registered for ever without answering: it answers
\* again or it leaves the registry
SweeperRemovesSilent ==
  \A s \in Sockets :
    []<>(s \notin Registered \/ (ev.h = "pong" /\ ev.ws = s))

\* the close of a connection the sweeper terminated: its registry entry is
\* gone, its Player and ScoreEntry are purged and remove{id} was written to
\* every remaining open connection
SweeperCleanup ==
  [](  (ev.h = "close" /\ ev.killed # {}) =>
         /\ ev.me \notin RegisteredIds
         /\ ev.me \notin DOMAIN players \cup DOMAIN scores
         /\ \A s \in Registered :
              IsOpen(s) => out[s] = <<ByBroadcast([t |-> "remove", id |-> ev.me])>>)

\* C13: at each tick every connection that has not answered the previous
\* probe is terminated and then cleaned up like a voluntary close (registry
\* entry, Player and ScoreEntry gone, remove broadcast), so a connection
\* that stops answering eventually leaves the registry; every other
\* connection has its flag cleared and is probed, and one that answers
\* every probe is never closed by the sweeper.
C13_Sweeper == SweeperTick /\ SweeperRemovesSilent /\ SweeperCleanup

\* an incoming coordinate that parses to a valid number
ValidNumber(v) ==
  \/ v.ty = "number"
  \/ v.ty = "string" /\ Len(v.s) > 0 /\ \A i \in 1..Len(v.s) : DigitIndex(v.s[i]) # 0

C15_NameRelay ==
  [][IsMsg(ev', "name") =>
       LET A == ev'.me
           p == ev'.f.p
           m == out'[ev'.ws][1].msg
       IN /\ Len(out'[ev'.ws]) = 1
          /\ m.t = "name" /\ m.id = A
          /\ p.name.ty \in {"undefined", "string"} => m.p.name = Clamped(p.name)
          /\ \A s \in Sockets :
               out'[s] = IF s \in DOMAIN socketToId' /\ readyState'[s] = "OPEN"
                         THEN <<ByBroadcast(m)>>
                         ELSE <<>>
          /\ DOMAIN players' = DOMAIN players
          /\ A \in DOMAIN players =>
               players'[A] = [x |-> players[A].x, z |-> players[A].z,
                              name |-> m.p.name]
          /\ \A id \in DOMAIN players \ {A} : players'[id] = players[id]
          /\ scores' = scores]_vars

\* a name event with a 25-character name from a session without a Player
\* record, relayed to itself and to a joined session
C15_Witness ==
  /\ IsMsg(ev, "name")
  /\ ev.f.p.name = Str(LongStr)
  /\ ev.me \notin DOMAIN players
  /\ ev.me \notin DOMAIN scores
  /\ DOMAIN players # {}
  /\ \A s \in Registered : Len(out[s]) = 1 /\ Len(out[s][1].msg.p.name) = NameLimit
  /\ Cardinality(Registered) = 2

\* C16: pickup, shoot and land events and events of an unrecognized type
\* change neither players, scores nor the registry; pickup, shoot and land
\* are written to every open connection except the sender exactly when
\* p.idx is a number, and an unrecognized type writes nothing.
C16_RelayOnly ==
  [][(/\ ev'.h = "message"
      /\ ev'.f.kind \in {"object", "value"}
      /\ ev'.f.t \notin {"join", "state", "name", "score", "reset"}) =>
       LET A == ev'.me
           f == ev'.f
           relayed == /\ f.t \in {"pickup", "shoot", "land"}
                      /\ f.p.idx.ty = "number"
       IN /\ players' = players
          /\ scores' = scores
          /\ socketToId' = socketToId
          /\ \A s \in Sockets :
               IF relayed /\ s # ev'.ws /\ s \in DOMAIN socketToId'
                  /\ readyState'[s] = "OPEN"
               THEN /\ Len(out'[s]) = 1
                    /\ out'[s][1].via = "broadcast"
                    /\ out'[s][1].msg.t = f.t
                    /\ f.t \in {"pickup", "shoot"} => out'[s][1].msg.id = A
                    /\ f.t = "pickup" => out'[s][1].msg.id2 = f.p.idx
                    /\ f.t \in {"shoot", "land"} => out'[s][1].msg.p = f.p
               ELSE out'[s] = <<>>]_vars

\* a pickup with a numeric index was relayed to the other open connection
C16_Witness ==
  /\ IsMsg(ev, "pickup")
  /\ ev.f.p.idx = Num(3)
  /\ out[ev.ws] = <<>>
  /\ \E s \in Registered \ {ev.ws} :
       out[s] = <<ByBroadcast([t |-> "pickup", id |-> ev.me, id2 |-> Num(3)])>>

\* C17: a join from a session that already has a ScoreEntry replaces its
\* Player record and leaves its score as it was; a join sets a score to 0
\* only when there was none; no other record changes, and there is never
\* more than one Player record per registered session.
C17_Rejoin ==
  /\ [](Cardinality(DOMAIN players) <= Cardinality(Registered))
  /\ [][IsMsg(ev', "join") =>
          LET A == ev'.me
              p == ev'.f.p
          IN /\ DOMAIN players' = DOMAIN players \cup {A}
             /\ p.x.ty = "number" => players'[A].x = p.x.n
             /\ p.z.ty = "number" => players'[A].z = p.z.n
             /\ p.x.ty = "undefined" => players'[A].x = 0
             /\ p.z.ty = "undefined" => players'[A].z = 0
             /\ \A id \in DOMAIN players \ {A} : players'[id] = players[id]
             /\ DOMAIN scores' = DOMAIN scores \cup {A}
             /\ scores'[A] = IF A \in DOMAIN scores THEN scores[A] ELSE 0
             /\ \A id \in DOMAIN scores \ {A} : scores'[id] = scores[id]]_vars

\* a join without coordinates from a session whose score is 2
C17_Witness ==
  /\ IsMsg(ev, "join")
  /\ ev.f.p.x = Undef
  /\ players[ev.me] = [x |-> 0, z |-> 0, name |-> PlayerStr]
  /\ scores[ev.me] = 2

\* every session id the run can issue
AllIds == {NewId(n) : n \in 1..MaxIds}
\* the Player record and the ScoreEntry of an id, <<>> when it has none
PlayerOf(pl, id) == IF id \in DOMAIN pl THEN <<pl[id]>> ELSE <<>>
ScoreEntryOf(sc, id) == IF id \in DOMAIN sc THEN <<sc[id]>> ELSE <<>>

\* this step changed A's Player record only as an event of A's own
\* connection (join, state, name) or A's disconnect
OwnPlayerOnly(A) ==
  PlayerOf(players', A) # PlayerOf(players, A) =>
    /\ ev'.me = A
    /\ \/ IsMsg(ev', "join") \/ IsMsg(ev', "state") \/ IsMsg(ev', "name")
       \/ ev'.h = "close"

\* this step changed A's ScoreEntry only as a score event that credits A, a
\* reset, A's join or A's disconnect
OwnScoreOnly(A) ==
  ScoreEntryOf(scores', A) # ScoreEntryOf(scores, A) =>
    \/ IsMsg(ev', "score") /\ out'[ev'.ws][1].msg.id = A
    \/ IsMsg(ev', "reset")
    \/ IsMsg(ev', "join") /\ ev'.me = A
    \/ ev'.h = "close" /\ ev'.me = A

\* the isolation of C18 over the steps that leave the server running
IsolationWhileRunning ==
  [][~crashed' => \A A \in AllIds : OwnPlayerOnly(A) /\ OwnScoreOnly(A)]_vars

\* C18: the Player record of A is created, changed or deleted only by join,
\* state and name events of A's own connection or by A's disconnect, never
\* by a message of another session; A's ScoreEntry changes only by a score
\* event crediting A, a reset, A's join or A's disconnect.
C18_Isolation ==
  [][\A A \in AllIds : OwnPlayerOnly(A) /\ OwnScoreOnly(A)]_vars

\* C19: between handlers every id with a Player record has a ScoreEntry and
\* every score is a non-negative integer, whatever the order of joins,
\* state, name, score and reset events and disconnects.
C19_PlayersHaveScores ==
  /\ DOMAIN players \subseteq DOMAIN scores
  /\ \A id \in DOMAIN scores : scores[id] \in Nat

\* after a reset with two joined players, every id having been issued
C19_Witness ==
  /\ IsMsg(ev, "reset")
  /\ Cardinality(DOMAIN players) = 2
  /\ nextId = MaxIds
  /\ \A id \in DOMAIN players : scores[id] = 0

\* C20: in a state event from a joined session an incoming coordinate equal
\* to the number 0 leaves the stored coordinate as it was and the relayed
\* state message carries that prior value; a non-zero stored coordinate
\* never becomes 0 by a state event, only by a join of the same session.
C20_ZeroIsMissing ==
  /\ [][(IsMsg(ev', "state") /\ ev'.me \in DOMAIN players) =>
          LET A == ev'.me
              p == ev'.f.p
          IN /\ A \in DOMAIN players'
             /\ p.x = Num(0) =>
                  /\ players'[A].x = players[A].x
                  /\ \A s \in Sockets : \A i \in DOMAIN out'[s] :
                       out'[s][i].msg.p.x = players[A].x
             /\ p.z = Num(0) =>
                  /\ players'[A].z = players[A].z
                  /\ \A s \in Sockets : \A i \in DOMAIN out'[s] :
                       out'[s][i].msg.p.z = players[A].z
             /\ players[A].x # 0 => players'[A].x # 0
             /\ players[A].z # 0 => players'[A].z # 0]_vars
  /\ [][\A A \in DOMAIN players \cap DOMAIN players' :
          ((players[A].x # 0 /\ players'[A].x = 0)
             \/ (players[A].z # 0 /\ players'[A].z = 0))
            => (IsMsg(ev', "join") /\ ev'.me = A)]_vars

\* state{x: 0} from a player at x = 1, relayed to another open connection
\* with x = 1
C20_Witness ==
  /\ IsMsg(ev, "state")
  /\ ev.f.p.x = Num(0)
  /\ ev.me \in DOMAIN players
  /\ players[ev.me].x = 1
  /\ \E s \in Registered \ {ev.ws} :
       /\ out[s] # <<>>
       /\ out[s][1].msg.p.x = 1

====
